---- MODULE Spec2Model ----
(***************************************************************************)
(* Main_Dashboard.py: one Streamlit script run, top to bottom.             *)
(*   load -> sidebar selections -> filter chain -> Leakage -> table        *)
(*   display -> epsilon floor -> scatter -> bar -> breakdown -> leakage    *)
(*                                                                         *)
(* Numbers.  Consumption values are fixed-point integers in units of       *)
(* 5e-7 litre, so that 1e-5, x * 0.05 and x * 1.1 are all exact on the     *)
(* values used here.  Binary floating-point rounding is not modelled.      *)
(* A float that may be NaN (the result of min()/max()) is a record         *)
(* [tag |-> "nan"] or [tag |-> "num", v |-> n].                            *)
(*                                                                         *)
(* Frames.  pandas DataFrames are objects: `frames` is the heap, the       *)
(* script variables `data` and `filtered_data` hold references into it.    *)
(* A DataFrame is a sequence of rows, each row a record of its columns     *)
(* plus `index`, the row label pandas keeps through boolean indexing.      *)
(*                                                                         *)
(* Not modelled: the Graphviz flowchart (lines 81-123, no data), the       *)
(* violin plot and the histogram (lines 177-193, they read filtered_data   *)
(* and write nothing), and everything plotly does with the figures.        *)
(***************************************************************************)
EXTENDS Integers, Sequences, FiniteSets, TLC

\* ------------------------------------------------------------------ bounds
\* Longest dataset drawn in Init.
MaxRows == 2
\* Most sidebar widgets the user moves away from their default in one run.
MaxTouched == 2

\* --------------------------------------------------------------- constants
\* 1e-5 litre in model units (line 129, 130): one unit is 5e-7 litre.
Epsilon == 20
UnitsPerLitre == Epsilon * 100000
\* The 0.05 of line 74, as a percentage.
LeakagePercent == 5
\* The 1.1 of lines 166 and 207, in tenths.
HeadroomTenths == 11

Litres(n) == n * UnitsPerLitre

\* ------------------------------------------------------------------ floats
NaN == [tag |-> "nan"]
Num(n) == [tag |-> "num", v |-> n]
\* A raised ValueError travelling in place of a value.
Raised == [tag |-> "raise"]

\* x * 0.05 (line 74)
TimesLeakageRate(x) == (x * LeakagePercent) \div 100

\* f * 1.1 on a float that may be NaN (lines 166, 207): NaN * 1.1 is NaN.
TimesHeadroom(f) ==
  IF f.tag = "num" THEN Num((f.v * HeadroomTenths) \div 10) ELSE f

\* ----------------------------------------------------------------- dataset
Dims == {"User_ID", "Area_Code", "Device_ID", "Water_Usage", "Year", "Month", "Day"}

\* The order of the seven `if selected_x:` steps, lines 58-71 (and of the
\* seven widgets, lines 47-53).
DimOrder == <<"User_ID", "Area_Code", "Device_ID", "Water_Usage", "Year", "Month", "Day">>

Timestamp(y, m, d) == [year |-> y, month |-> m, day |-> d]

\* A row of the Excel sheet (line 10), with its optional Anomalous column.
RawRow(u, a, dev, w, t, mo, da, ho) ==
  [User_ID |-> u, Area_Code |-> a, Device_ID |-> dev, Water_Usage |-> w,
   Time |-> t,
   Monthly_Water_Consumption |-> Litres(mo),
   Daily_Water_Consumption |-> Litres(da),
   Hourly_Water_Consumption |-> Litres(ho),
   Anomalous |-> (mo <= 0)]

\* The rows a dataset is drawn from.  Two values per dimension; user 0 and
\* device 0 are falsy values; monthly and daily consumption take positive,
\* zero and negative values; the first two rows share a (Time, Area_Code)
\* group; the first and the last share a (Month, Area_Code) group but not a
\* (Time, Area_Code) group.
RowPool ==
  { RawRow(0, 1, 0, 1, Timestamp(2023, 1, 1), 10, 1, 1),
    RawRow(1, 1, 1, 1, Timestamp(2023, 1, 1), 20, 0, 0),
    RawRow(1, 2, 1, 2, Timestamp(2024, 2, 2), -5, -1, 0),
    RawRow(0, 1, 0, 2, Timestamp(2024, 1, 2), 0, 2, 1) }

RawDatasets == UNION { [1..n -> RowPool] : n \in 0..MaxRows }

\* load_data (lines 9-16): the sheet without its Anomalous column.  The
\* cache hands every run its own copy of this value.
load_data(sh) ==
  [i \in DOMAIN sh |->
     [c \in (DOMAIN sh[i]) \ {"Anomalous"} |-> sh[i][c]]]

\* Lines 21-23: Year, Month, Day from Time; `index` is the RangeIndex label.
WithCalendarParts(raw) ==
  [i \in DOMAIN raw |->
     [index |-> i - 1,
      User_ID |-> raw[i].User_ID, Area_Code |-> raw[i].Area_Code,
      Device_ID |-> raw[i].Device_ID, Water_Usage |-> raw[i].Water_Usage,
      Time |-> raw[i].Time,
      Monthly_Water_Consumption |-> raw[i].Monthly_Water_Consumption,
      Daily_Water_Consumption |-> raw[i].Daily_Water_Consumption,
      Hourly_Water_Consumption |-> raw[i].Hourly_Water_Consumption,
      Year |-> raw[i].Time.year, Month |-> raw[i].Time.month,
      Day |-> raw[i].Time.day]]

\* ------------------------------------------------------------ frame helpers
\* Series.unique() (lines 38-44), as the set of its values: the order of
\* first appearance is dropped, nothing below reads it.
Unique(t, col) == { t[i][col] : i \in DOMAIN t }

\* The values of one column, as a set (for min and max).
ColumnValues(t, col) == { t[i][col] : i \in DOMAIN t }

\* Series.min() / Series.max(): NaN on an empty series.
SeriesMin(vals) ==
  IF vals = {} THEN NaN ELSE Num(CHOOSE x \in vals : \A y \in vals : x <= y)

\* A max() that raises on an empty series, as the builtin max() would.
SeriesMaxRaising(vals) ==
  IF vals = {} THEN Raised ELSE Num(CHOOSE x \in vals : \A y \in vals : x >= y)

SeriesMax(vals) ==
  IF vals = {} THEN NaN ELSE Num(CHOOSE x \in vals : \A y \in vals : x >= y)

\* --------------------------------------------------------------- selection
\* What multi_select_with_all returns (lines 28-35): the options ndarray
\* itself when "Select All" is ticked, else the list st.multiselect returns.
\* Values are kept as a set; membership and truthiness read nothing else.
multi_select_with_all(options, all_selected, picks) ==
  IF all_selected THEN [kind |-> "ndarray", vals |-> options]
  ELSE [kind |-> "list", vals |-> picks]

\* An untouched widget: checkbox value=False, multiselect default=None.
DefaultSelection == multi_select_with_all({}, FALSE, {})

\* Python truthiness of one value of a filter column: 0 is falsy.
ValueTruth(v) == v # 0

\* bool(selected) as `if selected_x:` evaluates it (lines 58-70).
\*   list: non-empty.
\*   ndarray of two or more elements: ValueError (ambiguous truth value).
\*   ndarray of one element: the truth of that element.
\*   empty ndarray: False with a DeprecationWarning before NumPy 2.2,
\*                  ValueError from NumPy 2.2 on (`strict`).
Truth(sel, strict) ==
  IF sel.kind = "list"
  THEN (IF sel.vals = {} THEN "False" ELSE "True")
  ELSE IF Cardinality(sel.vals) >= 2 THEN "ValueError"
  ELSE IF Cardinality(sel.vals) = 1
       THEN (IF \A v \in sel.vals : ValueTruth(v) THEN "True" ELSE "False")
       ELSE (IF strict THEN "ValueError" ELSE "False")

\* df[df[col].isin(values)]: the rows whose value is among `values`.
IsIn(t, col, values) == SelectSeq(t, LAMBDA r : r[col] \in values)

\* ------------------------------------------------------------------- state
VARIABLES
  sheet,            \* the Excel sheet load_data reads (line 10); never written
  numpy_strict,     \* the build: NumPy >= 2.2 (bool of an empty array raises)
  pc,               \* the stage of the script run
  k,                \* the next sidebar widget, 1..7 (lines 47-53)
  frames,           \* the heap of DataFrames: frame id -> rows
  data,             \* the script variable `data` (line 18): a frame id
  filtered_data,    \* the script variable `filtered_data` (line 56): a frame id
  selected,         \* selected_id .. selected_day (lines 47-53), by dimension
  applied,          \* the filter steps taken so far (permuted runs only)
  err,              \* the exception that ended the run, or "none"
  displayed,        \* what st.write / st.dataframe were handed (lines 78-79)
  scatter,          \* the scatter view's input and ranges (lines 132-146)
  bar,              \* monthly_consumption and range_y (lines 158-168)
  breakdown,        \* monthly_breakdown (line 186)
  leakage_view      \* leakage_data and range_y (lines 199-209)

vars == <<sheet, numpy_strict, pc, k, frames, data, filtered_data, selected,
          applied, err, displayed, scatter, bar, breakdown, leakage_view>>

views == <<displayed, scatter, bar, breakdown, leakage_view>>

\* A view the run has not reached yet.
Unset == [set |-> FALSE]

\* The script with the floor moved above the table display.
ScriptFloorBeforeDisplay ==
  <<"select", "filter", "leakage", "floor", "display", "scatter", "bar",
    "breakdown", "leakage_chart", "done">>

\* The stages of one run, in the order of the script.
Script ==
  <<"select", "filter", "leakage", "display", "floor", "scatter", "bar",
    "breakdown", "leakage_chart", "done">>

NextStage(p) ==
  Script[(CHOOSE i \in 1..(Len(Script) - 1) : Script[i] = p) + 1]

\* ------------------------------------------------------------ filter chain
\* The running result of the filter chain: the current rows, whether a
\* boolean-indexing step has produced a new frame, and a raised exception.
ChainStart(t) == [rows |-> t, indexed |-> FALSE, err |-> "none"]

\* A step with no truthiness test: an empty pick list filters every row out.
FilterStepEmptyExcludes(res, col, sel, strict) ==
  IF res.err # "none" THEN res
  ELSE LET b == Truth(sel, strict) IN
       IF b = "ValueError" THEN [res EXCEPT !.err = "ValueError"]
       ELSE [rows |-> IsIn(res.rows, col, sel.vals), indexed |-> TRUE,
             err |-> "none"]

\* A step that filters `data` instead of the running `filtered_data`.
FilterStepFromData(res, col, sel, strict) ==
  IF res.err # "none" THEN res
  ELSE LET b == Truth(sel, strict) IN
       IF b = "ValueError" THEN [res EXCEPT !.err = "ValueError"]
       ELSE IF b = "True"
            THEN [rows |-> IsIn(frames[data], col, sel.vals),
                  indexed |-> TRUE, err |-> "none"]
            ELSE res

\* One step `if sel: filtered_data = filtered_data[filtered_data[col].isin(sel)]`
\* (lines 58-59, 60-61, ..., 70-71).
FilterStep(res, col, sel, strict) ==
  IF res.err # "none" THEN res
  ELSE LET b == Truth(sel, strict) IN
       IF b = "ValueError" THEN [res EXCEPT !.err = "ValueError"]
       ELSE IF b = "True"
            THEN [rows |-> IsIn(res.rows, col, sel.vals), indexed |-> TRUE,
                  err |-> "none"]
            ELSE res

RECURSIVE ChainFrom(_, _, _, _)
ChainFrom(res, i, sel, strict) ==
  IF i > Len(DimOrder) THEN res
  ELSE ChainFrom(FilterStep(res, DimOrder[i], sel[DimOrder[i]], strict),
                 i + 1, sel, strict)

\* Lines 58-71 in the order of the script.
FilterChain(t, sel, strict) == ChainFrom(ChainStart(t), 1, sel, strict)

\* `filtered_data = data` with no copy: the same frame under a second name.
DataFrame_alias(src) == src

\* data.copy() (line 56): the id of the frame that receives the copy.
DataFrame_copy(src) == "df2"

\* The frame a boolean-indexing expression df[mask] allocates.
IndexedFrame == "df3"

\* ------------------------------------------------------------------- Init
Init ==
  /\ sheet \in RawDatasets
  \* the NumPy version only shows on an empty options array, which only an
  \* empty sheet produces
  /\ numpy_strict \in (IF sheet = <<>> THEN BOOLEAN ELSE {FALSE})
  /\ pc = "select"
  /\ k = 1
  /\ data = "df1"
  /\ frames = [df1 |-> WithCalendarParts(load_data(sheet)), df2 |-> <<>>, df3 |-> <<>>]
  /\ filtered_data = "unbound"
  /\ selected = [d \in Dims |-> DefaultSelection]
  /\ applied = {}
  /\ err = "none"
  /\ displayed = Unset
  /\ scatter = Unset
  /\ bar = Unset
  /\ breakdown = Unset
  /\ leakage_view = Unset

\* The number of widgets moved away from their default.
Touched(sel) == Cardinality({d \in Dims : sel[d] # DefaultSelection})

\* One call of multi_select_with_all (one of lines 47-53) with the widget
\* state the user left: the checkbox and, when it is not ticked, the picks.
MultiSelect ==
  /\ pc = "select"
  /\ LET d == DimOrder[k]
         options == Unique(frames[data], d)
     IN \E all_selected \in BOOLEAN, picks \in SUBSET options :
          LET s == multi_select_with_all(options, all_selected, picks) IN
          /\ all_selected => picks = {}
          /\ s # DefaultSelection => Touched(selected) < MaxTouched
          /\ selected' = [selected EXCEPT ![d] = s]
  /\ IF k = Len(DimOrder)
     THEN pc' = NextStage("select") /\ k' = 1
     ELSE pc' = pc /\ k' = k + 1
  /\ UNCHANGED <<sheet, numpy_strict, frames, data, filtered_data, applied,
                 err, views>>

\* Lines 56-71: the copy and the seven filter steps.
Filter ==
  /\ pc = "filter"
  /\ LET dst == DataFrame_copy(data)
         heap == [frames EXCEPT ![dst] = frames[data]]
         res == FilterChain(heap[dst], selected, numpy_strict)
         ref == IF res.indexed THEN IndexedFrame ELSE dst
     IN /\ frames' = [heap EXCEPT ![ref] = res.rows]
        /\ filtered_data' = ref
        /\ err' = res.err
        /\ pc' = IF res.err = "none" THEN NextStage("filter") ELSE "error"
  /\ UNCHANGED <<sheet, numpy_strict, k, data, selected, applied, views>>

\* ------------------------------------------------------------ derived data
\* filtered_data['Leakage'] = filtered_data['Monthly_Water_Consumption'] * 0.05
\* (line 74): the frame with the new column.
WithLeakage(t) ==
  [i \in DOMAIN t |->
     [c \in (DOMAIN t[i]) \cup {"Leakage"} |->
        IF c = "Leakage"
        THEN TimesLeakageRate(t[i].Monthly_Water_Consumption)
        ELSE t[i][c]]]

\* A floor that lets zero through.
FloorValueNonNegative(x) == IF x >= 0 THEN x ELSE Epsilon

\* lambda x: x if x > 0 else 1e-5 (lines 129, 130)
FloorValue(x) == IF x > 0 THEN x ELSE Epsilon

\* Lines 129-130: both consumption columns replaced by their floored values.
WithFloor(t) ==
  [i \in DOMAIN t |->
     [t[i] EXCEPT
        !.Monthly_Water_Consumption = FloorValue(@),
        !.Daily_Water_Consumption = FloorValue(@)]]

\* The key of a row under groupby(keys).
RowKey(r, keys) == [j \in DOMAIN keys |-> r[keys[j]]]

RECURSIVE GroupTotal(_, _, _, _)
GroupTotal(t, keys, g, measure) ==
  IF t = <<>> THEN 0
  ELSE (IF RowKey(Head(t), keys) = g THEN Head(t)[measure] ELSE 0)
       + GroupTotal(Tail(t), keys, g, measure)

\* df.groupby(keys)[measure].sum().reset_index() (lines 158, 186, 199): one
\* entry per key present in the frame, holding the sum of the measure.
GroupBySum(t, keys, measure) ==
  [g \in { RowKey(t[i], keys) : i \in DOMAIN t } |->
     GroupTotal(t, keys, g, measure)]

\* The measure column of a grouped result, as a set (for max).
GroupedValues(g) == { g[x] : x \in DOMAIN g }

\* ----------------------------------------------------------------- actions
\* The frame filtered_data refers to.
Current == frames[filtered_data]

\* An exception raised while a stage computes: the run ends there.
Raise ==
  /\ err' = "ValueError"
  /\ pc' = "error"

\* Line 74.
Leakage ==
  /\ pc = "leakage"
  /\ frames' = [frames EXCEPT ![filtered_data] = WithLeakage(@)]
  /\ pc' = NextStage("leakage")
  /\ UNCHANGED <<sheet, numpy_strict, k, data, filtered_data, selected,
                 applied, err, views>>

\* Lines 78-79: the row count and the table handed to the page.
Display ==
  /\ pc = "display"
  /\ displayed' = [set |-> TRUE, count |-> Len(Current), table |-> Current]
  /\ pc' = NextStage("display")
  /\ UNCHANGED <<sheet, numpy_strict, k, frames, data, filtered_data,
                 selected, applied, err, scatter, bar, breakdown,
                 leakage_view>>

\* Lines 129-130: the floor, written into filtered_data itself.
Floor ==
  /\ pc = "floor"
  /\ frames' = [frames EXCEPT ![filtered_data] = WithFloor(@)]
  /\ pc' = NextStage("floor")
  /\ UNCHANGED <<sheet, numpy_strict, k, data, filtered_data, selected,
                 applied, err, views>>

\* Lines 132-146: the points and the axis ranges of the scatter view.
Scatter ==
  /\ pc = "scatter"
  /\ LET xs == ColumnValues(Current, "Monthly_Water_Consumption")
         ys == ColumnValues(Current, "Daily_Water_Consumption")
         rx == <<SeriesMin(xs), SeriesMax(xs)>>
         ry == <<SeriesMin(ys), SeriesMax(ys)>>
     IN IF Raised \in {rx[1], rx[2], ry[1], ry[2]}
        THEN Raise /\ UNCHANGED scatter
        ELSE /\ scatter' =
                  [set |-> TRUE,
                   points |-> [i \in DOMAIN Current |->
                                 [x |-> Current[i].Monthly_Water_Consumption,
                                  y |-> Current[i].Daily_Water_Consumption,
                                  size |-> Current[i].Daily_Water_Consumption]],
                   range_x |-> rx, range_y |-> ry]
             /\ pc' = NextStage("scatter")
             /\ err' = err
  /\ UNCHANGED <<sheet, numpy_strict, k, frames, data, filtered_data,
                 selected, applied, displayed, bar, breakdown, leakage_view>>

\* Lines 158-168: monthly_consumption and the bar view's range_y.
Bar ==
  /\ pc = "bar"
  /\ LET monthly_consumption ==
           GroupBySum(Current, <<"Time", "Area_Code">>,
                      "Monthly_Water_Consumption")
         top == TimesHeadroom(SeriesMax(GroupedValues(monthly_consumption)))
     IN IF top = Raised
        THEN Raise /\ UNCHANGED bar
        ELSE /\ bar' = [set |-> TRUE, table |-> monthly_consumption,
                        range_y |-> <<Num(0), top>>]
             /\ pc' = NextStage("bar")
             /\ err' = err
  /\ UNCHANGED <<sheet, numpy_strict, k, frames, data, filtered_data,
                 selected, applied, displayed, scatter, breakdown,
                 leakage_view>>

\* Lines 186-187: monthly_breakdown.
Breakdown ==
  /\ pc = "breakdown"
  /\ breakdown' =
       [set |-> TRUE,
        table |-> GroupBySum(Current, <<"Month", "Area_Code">>,
                             "Monthly_Water_Consumption")]
  /\ pc' = NextStage("breakdown")
  /\ UNCHANGED <<sheet, numpy_strict, k, frames, data, filtered_data,
                 selected, applied, err, displayed, scatter, bar,
                 leakage_view>>

\* Lines 199-209: leakage_data and the leakage view's range_y.
LeakageChart ==
  /\ pc = "leakage_chart"
  /\ LET leakage_data ==
           GroupBySum(Current, <<"Time", "Area_Code">>, "Leakage")
         top == TimesHeadroom(SeriesMax(GroupedValues(leakage_data)))
     IN IF top = Raised
        THEN Raise /\ UNCHANGED leakage_view
        ELSE /\ leakage_view' = [set |-> TRUE, table |-> leakage_data,
                                 range_y |-> <<Num(0), top>>]
             /\ pc' = NextStage("leakage_chart")
             /\ err' = err
  /\ UNCHANGED <<sheet, numpy_strict, k, frames, data, filtered_data,
                 selected, applied, displayed, scatter, bar, breakdown>>

\* A widget change reruns the script from the top: load_data hands out a
\* fresh copy of the cached sheet, every other variable of the run is new.
Rerun ==
  /\ pc \in {"done", "error", "permuted"}
  /\ pc' = "select"
  /\ k' = 1
  /\ frames' = [df1 |-> WithCalendarParts(load_data(sheet)), df2 |-> <<>>,
                df3 |-> <<>>]
  /\ filtered_data' = "unbound"
  /\ selected' = [d \in Dims |-> DefaultSelection]
  /\ applied' = {}
  /\ err' = "none"
  /\ displayed' = Unset
  /\ scatter' = Unset
  /\ bar' = Unset
  /\ breakdown' = Unset
  /\ leakage_view' = Unset
  /\ UNCHANGED <<sheet, numpy_strict, data>>

Next ==
  \/ MultiSelect
  \/ Filter
  \/ Leakage
  \/ Display
  \/ Floor
  \/ Scatter
  \/ Bar
  \/ Breakdown
  \/ LeakageChart
  \/ Rerun

Spec == Init /\ [][Next]_vars

\* ------------------------------------------- the filter steps in any order
\* Line 56 alone: the copy.
PermCopy ==
  /\ pc = "filter"
  /\ LET dst == DataFrame_copy(data)
     IN /\ frames' = [frames EXCEPT ![dst] = frames[data]]
        /\ filtered_data' = dst
  /\ pc' = "permute"
  /\ UNCHANGED <<sheet, numpy_strict, k, data, selected, applied, err, views>>

\* One of the seven steps of lines 58-71 that has not run yet, whichever.
PermStep ==
  /\ pc = "permute"
  /\ \E d \in Dims \ applied :
       LET res == FilterStep([rows |-> Current,
                              indexed |-> (filtered_data = IndexedFrame),
                              err |-> "none"],
                             d, selected[d], numpy_strict)
           ref == IF res.indexed THEN IndexedFrame ELSE filtered_data
       IN /\ frames' = [frames EXCEPT ![ref] = res.rows]
          /\ filtered_data' = ref
          /\ err' = res.err
          /\ applied' = applied \cup {d}
          /\ pc' = IF res.err # "none" THEN "error"
                   ELSE IF applied \cup {d} = Dims THEN "permuted"
                   ELSE "permute"
  /\ UNCHANGED <<sheet, numpy_strict, k, data, selected, views>>

NextPerm ==
  \/ MultiSelect
  \/ PermCopy
  \/ PermStep
  \/ Rerun

SpecPerm == Init /\ [][NextPerm]_vars

\* ================================================================== claims
\* The table the loader produced for this run, lines 9-23.
Loaded == WithCalendarParts(load_data(sheet))

\* The row of `data` a filtered row came from, by its index label.
Source(r) == frames[data][r.index + 1]

\* The stages after the filter chain has completed.
PostFilter ==
  {"leakage", "display", "floor", "scatter", "bar", "breakdown",
   "leakage_chart", "done"}

\* The stages after the Leakage column exists.
PostLeakage == PostFilter \ {"leakage"}

\* Every selection is a pick list (no "Select All" ticked).
AllLists == \A d \in Dims : selected[d].kind = "list"

\* r passes every dimension whose pick list is non-empty.
Satisfies(r, sel) ==
  \A d \in Dims : sel[d].vals # {} => r[d] \in sel[d].vals

\* C1: with "Select All" ticked for a dimension (the other six given as pick
\* lists), the run completes and its filtered rows are those of the run
\* with that dimension's selection empty.  Stated for non-empty datasets:
\* on an empty one the outcome depends on the NumPy version.
C1_SelectAllSameAsEmpty ==
  \A d \in Dims :
    (/\ sheet # <<>>
     /\ selected[d].kind = "ndarray"
     /\ \A e \in Dims \ {d} : selected[e].kind = "list"
     /\ pc \notin {"select", "filter"})
    => /\ pc # "error"
       /\ pc = "leakage" =>
            LET alt == FilterChain(frames[data],
                                   [selected EXCEPT ![d] = DefaultSelection],
                                   numpy_strict)
            IN alt.err = "none" /\ alt.rows = Current

\* C2: with pick lists, the filtered table is exactly the rows of the
\* dataset, in order and unaltered, that lie in every non-empty pick list;
\* the run does not fail, also when no row remains.
C2_FilterKeepsExactlyMatchingRows ==
  AllLists =>
    /\ pc # "error"
    /\ pc = "leakage" =>
         Current = SelectSeq(frames[data], LAMBDA r : Satisfies(r, selected))

\* C2 witness: two dimensions constrain, and some but not all rows remain.
C2_Witness ==
  /\ pc = "leakage"
  /\ AllLists
  /\ Cardinality({d \in Dims : selected[d].vals # {}}) >= 2
  /\ Len(Current) >= 1
  /\ Len(Current) < Len(frames[data])

\* The frame with the monthly consumption its rows had in `data`.
Unfloored(t) ==
  [i \in DOMAIN t |->
     [t[i] EXCEPT !.Monthly_Water_Consumption =
                     Source(t[i]).Monthly_Water_Consumption]]

\* C3: the bar view's (Time, Area_Code) sums and the breakdown view's
\* (Month, Area_Code) sums are sums of the original, unfloored monthly
\* consumption of the filtered rows.
C3_SumsUseTrueValues ==
  /\ bar.set =>
       bar.table = GroupBySum(Unfloored(Current), <<"Time", "Area_Code">>,
                              "Monthly_Water_Consumption")
  /\ breakdown.set =>
       breakdown.table = GroupBySum(Unfloored(Current),
                                    <<"Month", "Area_Code">>,
                                    "Monthly_Water_Consumption")

\* C5: once Leakage is derived, every filtered row has
\* Leakage = 0.05 x its Monthly_Water_Consumption, up to the end of the run.
C5_LeakageIsFivePercent ==
  pc \in PostLeakage =>
    \A i \in DOMAIN Current :
      Current[i].Leakage
        = TimesLeakageRate(Current[i].Monthly_Water_Consumption)

\* C6: the loaded table `data` is never changed by a run, nor by the runs
\* before it: it is the loader's table in every state.
C6_DataNeverMutated == frames[data] = Loaded

\* C6 witness: a finished run with no filter applied, whose floor changed a
\* value of filtered_data.
C6_Witness ==
  /\ pc = "done"
  /\ filtered_data = "df2"
  /\ \E i \in DOMAIN Current :
       Current[i].Monthly_Water_Consumption
         # Source(Current[i]).Monthly_Water_Consumption

\* m is the largest value of a grouped result.
IsMaxOf(m, g) ==
  /\ \E x \in DOMAIN g : g[x] = m
  /\ \A x \in DOMAIN g : g[x] <= m

\* The upper bound `top` is 1.1 x the largest group sum, or a number (not
\* NaN) when there is no group.
HasHeadroom(top, g) ==
  IF DOMAIN g = {}
  THEN top.tag = "num"
  ELSE \E x \in DOMAIN g :
         IsMaxOf(g[x], g) /\ top = Num((g[x] * HeadroomTenths) \div 10)

\* C7: the bar view's and the leakage view's upper y bound is 1.1 x the
\* largest group sum, and a defined default (not NaN) when the filtered
\* table is empty.  Stated for non-empty datasets.
C7_HeadroomOrDefault ==
  sheet # <<>> =>
  /\ bar.set => HasHeadroom(bar.range_y[2], bar.table)
  /\ leakage_view.set => HasHeadroom(leakage_view.range_y[2], leakage_view.table)

\* The filter chain of this run completes and leaves no row.
ZeroRowRun ==
  /\ pc \notin {"select", "filter"}
  /\ LET r == FilterChain(frames[data], selected, numpy_strict)
     IN r.err = "none" /\ r.rows = <<>>

\* C8: a run whose filter left zero rows raises nothing in any later stage
\* and ends with every view computed from an empty table.
C8_EmptyResultIsNoError ==
  ZeroRowRun
  => /\ pc # "error"
     /\ err = "none"
     /\ Current = <<>>
     /\ (pc = "done" =>
           /\ displayed = [set |-> TRUE, count |-> 0, table |-> <<>>]
           /\ scatter.set /\ scatter.points = <<>>
           /\ bar.set /\ DOMAIN bar.table = {}
           /\ breakdown.set /\ DOMAIN breakdown.table = {}
           /\ leakage_view.set /\ DOMAIN leakage_view.table = {})

\* C8 witness: a non-empty dataset filtered down to zero rows, run to the end.
C8_Witness ==
  /\ pc = "done"
  /\ sheet # <<>>
  /\ Current = <<>>

\* C9: every point of the scatter view has positive coordinates, the
\* original value when it was positive and 1e-5 otherwise; the axis ranges
\* are the least and largest of those values, positive on a non-empty table.
C9_ScatterValuesArePositive ==
  scatter.set =>
    /\ DOMAIN scatter.points = DOMAIN Current
    /\ \A i \in DOMAIN scatter.points :
         LET p == scatter.points[i]
             m == Source(Current[i]).Monthly_Water_Consumption
             d == Source(Current[i]).Daily_Water_Consumption
         IN /\ p.x > 0 /\ p.y > 0 /\ p.size > 0
            /\ p.x = (IF m > 0 THEN m ELSE Epsilon)
            /\ p.y = (IF d > 0 THEN d ELSE Epsilon)
            /\ p.size = p.y
    /\ scatter.points # <<>> =>
         /\ \A j \in 1..2 : scatter.range_x[j].tag = "num"
                            /\ scatter.range_x[j].v > 0
                            /\ scatter.range_y[j].tag = "num"
                            /\ scatter.range_y[j].v > 0
         /\ \E i \in DOMAIN scatter.points :
              scatter.points[i].x = scatter.range_x[1].v
         /\ \E i \in DOMAIN scatter.points :
              scatter.points[i].x = scatter.range_x[2].v
         /\ \E i \in DOMAIN scatter.points :
              scatter.points[i].y = scatter.range_y[1].v
         /\ \E i \in DOMAIN scatter.points :
              scatter.points[i].y = scatter.range_y[2].v
         /\ \A i \in DOMAIN scatter.points :
              /\ scatter.range_x[1].v <= scatter.points[i].x
              /\ scatter.points[i].x <= scatter.range_x[2].v
              /\ scatter.range_y[1].v <= scatter.points[i].y
              /\ scatter.points[i].y <= scatter.range_y[2].v

\* C9 witness: the scatter view was fed a row whose daily consumption was 0
\* and a row whose monthly consumption was negative.
C9_Witness ==
  /\ scatter.set
  /\ \E i \in DOMAIN Current : Source(Current[i]).Daily_Water_Consumption = 0
  /\ \E i \in DOMAIN Current : Source(Current[i]).Monthly_Water_Consumption < 0

\* C10: the table displayed, and the row count written with it, is the
\* filtered table with its Leakage column and its original consumption
\* values: none of them is the floor's 1e-5.
C10_DisplayShowsUnflooredTable ==
  displayed.set =>
    /\ displayed.count = Len(displayed.table)
    /\ DOMAIN displayed.table = DOMAIN Current
    /\ \A i \in DOMAIN displayed.table :
         LET r == displayed.table[i] IN
         /\ r.index = Current[i].index
         /\ r.Monthly_Water_Consumption = Source(r).Monthly_Water_Consumption
         /\ r.Daily_Water_Consumption = Source(r).Daily_Water_Consumption
         /\ r.Leakage = TimesLeakageRate(Source(r).Monthly_Water_Consumption)

\* C10 witness: a displayed row with a non-positive value, after the floor
\* has replaced that value in filtered_data.
C10_Witness ==
  /\ displayed.set
  /\ pc = "scatter"
  /\ \E i \in DOMAIN displayed.table :
       /\ displayed.table[i].Monthly_Water_Consumption <= 0
       /\ Current[i].Monthly_Water_Consumption = Epsilon

\* The selection with the steps not yet taken left at their default.
TakenSoFar == [d \in Dims |-> IF d \in applied THEN selected[d] ELSE DefaultSelection]

\* C4: the seven filter steps taken in any order end as the script's order
\* does: with the same rows, or with an exception when the script raises;
\* and after any part of them, the rows are those the script's order leaves
\* for that part.
C4_FilterStepsCommute ==
  LET script == FilterChain(frames[data], selected, numpy_strict)
      part == FilterChain(frames[data], TakenSoFar, numpy_strict)
  IN /\ pc = "permuted" => script.err = "none" /\ script.rows = Current
     /\ (pc = "error" /\ applied # {}) => script.err # "none"
     /\ pc = "permute" => part.err = "none" /\ part.rows = Current

\* C4 witness: every step but the script's first has run, a later step has
\* removed rows, and the User_ID step, taken last, will remove more.
C4_Witness ==
  /\ pc = "permute"
  /\ applied = Dims \ {"User_ID"}
  /\ Truth(selected["User_ID"], numpy_strict) = "True"
  /\ Len(Current) < Len(frames[data])
  /\ IsIn(Current, "User_ID", selected["User_ID"].vals) # Current

====
